---- MODULE Spec2Model ----
(***************************************************************************)
(* A model of phangsPipeline/productHandler.py: the filename table, the   *)
(* low-resolution and all-resolution mask recipes, the mask writer, the    *)
(* product writer and the loop over (target, product, config) triples.     *)
(* The program is single threaded; every action is one step of the call    *)
(* that is currently running.  Only the error and warning records of the   *)
(* logger are kept (info and debug lines are not part of the state).       *)
(***************************************************************************)
EXTENDS Integers, Sequences, FiniteSets, TLC

(* ------------------------------ bounds --------------------------------- *)
NumTargets == 3
NumVoxels == 2
MaxDisabled == 1
NumDataSets == 2
MaxCalls == 2

(* --------------------------- the catalogue ----------------------------- *)
\* Python's None for a string argument.
None == "None"

\* The targets of the handler, in the looper's order.
TargetNames == <<"ngc0628", "ngc2997", "ngc4321", "ngc4535", "ngc4303">>
Targets == {TargetNames[i] : i \in 1..NumTargets}
Products == {"co21"}
Configs == {"7m+tp"}

\* get_res_for_config: the resolutions of a config, in hundredths of an
\* arcsecond; a config the key handler does not know has None (<<>> here
\* stands for an empty list, HasResList tells None from a list).
HasResList(config) == config \in Configs
get_res_for_config(config) == IF config \in Configs THEN <<536, 1072, 2144>> ELSE <<>>

\* get_tag_for_res: the tag string of a resolution.
get_tag_for_res(res) ==
    CASE res = 536 -> "5p36"
      [] res = 1072 -> "10p72"
      [] res = 2144 -> "21p44"

ResSet == {536, 1072, 2144}
Tags == {get_tag_for_res(r) : r \in ResSet}

Voxels == 1..NumVoxels

(* ------------------------------ files ---------------------------------- *)
KindList == <<"mom0", "mom1", "mom2", "ew", "tmax", "vmax", "vquad">>
Kinds == {KindList[i] : i \in 1..Len(KindList)}
ErrSfx(kind) == "e" \o kind

\* get_cube_filename joined to indir, and the names derived from it in outdir.
CubePath(target, config, product, tag) ==
    [target |-> target, config |-> config, product |-> product,
     ext |-> "pbcorr_trimmed_k", tag |-> tag, sfx |-> ""]
OutPath(target, config, product, ext, tag) ==
    [target |-> target, config |-> config, product |-> product,
     ext |-> ext, tag |-> tag, sfx |-> ""]
\* re.sub(r'\.fits$', '', commonoutfitsfile) + '_' + sfx + '.fits'
ProductPath(common, sfx) == [common EXCEPT !.sfx = sfx]

CubePaths == {CubePath(t, c, p, g) : t \in Targets, c \in Configs, p \in Products, g \in Tags}
MaskPaths == {OutPath(t, c, p, e, g) :
                 t \in Targets, c \in Configs, p \in Products,
                 e \in {"hybridmask", "signalmask"}, g \in Tags}
CommonPaths == {OutPath(t, c, p, e, g) :
                 t \in Targets, c \in Configs, p \in Products,
                 e \in {"broad", "strict"}, g \in Tags}
ProductPaths == {ProductPath(b, s) : b \in CommonPaths,
                                     s \in Kinds \cup {ErrSfx(k) : k \in Kinds}}
OutPaths == MaskPaths \cup ProductPaths
Paths == CubePaths \cup OutPaths

\* A file: what kind of content it holds, the content, and the number of the
\* call that wrote it (0: it was there before the first call).
\* The file system is the function from the paths that exist to their files.
ZeroData == [v \in Voxels |-> 0]
OldFile == [type |-> "old", func |-> "", data |-> ZeroData, note |-> <<>>, stamp |-> 0]
CubeFile(data) == [type |-> "cube", func |-> "", data |-> data, note |-> <<>>, stamp |-> 0]

\* os.path.isfile, os.remove, and a write that replaces what is there.
isfile(files, path) == path \in DOMAIN files
remove(files, path) == [p \in DOMAIN files \ {path} |-> files[p]]
put(files, path, file) ==
    [p \in DOMAIN files \cup {path} |-> IF p = path THEN file ELSE files[p]]

\* Python's None where a path is expected.
NonePath == [target |-> None, config |-> None, product |-> None,
             ext |-> None, tag |-> None, sfx |-> None]

(* ----------------- external routines (scMaskingRoutines) --------------- *)
\* noise_cube: the local noise of a cube, a uniform level of one unit.
noise_cube(data) == [v \in Voxels |-> 1]
\* simple_mask: the voxels brighter than five times their noise.
SigmaMultiple == 5
simple_mask(data, noise) == [v \in Voxels |-> data[v] > SigmaMultiple * noise[v]]

\* mask.astype(int)
astype_int(mask) == [v \in Voxels |-> IF mask[v] THEN 1 ELSE 0]

\* No mask was passed (lowres_cube_mask = None).
NoneMask == <<>>
Masks == [Voxels -> BOOLEAN]

(* ----------------------------- _fname_dict ----------------------------- *)
\* lowest_res = None
NoRes == -1

\* The five names of one resolution's entry of the table.
TableEntry(target, config, product, res_tag) ==
    [pbcorr_trimmed_k |-> CubePath(target, config, product, res_tag),
     hybridmask |-> OutPath(target, config, product, "hybridmask", res_tag),
     signalmask |-> OutPath(target, config, product, "signalmask", res_tag),
     broad |-> OutPath(target, config, product, "broad", res_tag),
     strict |-> OutPath(target, config, product, "strict", res_tag)]

\* A variant that takes every configured cube to be on disk.
cube_assumed(files, cube) == TRUE

\* "if os.path.isfile(os.path.join(indir, cube_filename))"
cube_on_disk(files, cube) == isfile(files, cube)

\* The else branch: the cube was not found, a warning is logged.
not_found(acc, res_tag) ==
    [acc EXCEPT !.log = Append(@, [level |-> "warning", what |-> res_tag])]

\* A variant that keeps the finest resolution instead of the coarsest.
TakesOverFinest(this_res, lowest_res) == lowest_res = NoRes \/ this_res < lowest_res

\* "if lowest_res is None ... elif this_res > lowest_res": this_res replaces
\* the resolution remembered so far.
TakesOverLowest(this_res, lowest_res) == lowest_res = NoRes \/ this_res > lowest_res

\* The loop over res_list, from position i on.  acc holds fname_dict (entries),
\* lowest_res, lowest_res_tag and the warnings logged.
RECURSIVE fname_loop(_, _, _, _, _, _, _)
fname_loop(files, target, config, product, res_list, i, acc) ==
    IF i > Len(res_list) THEN acc
    ELSE LET this_res == res_list[i]
             res_tag == get_tag_for_res(this_res)
             cube == CubePath(target, config, product, res_tag)
         IN IF cube_on_disk(files, cube)
            THEN LET takes == TakesOverLowest(this_res, acc.lowest_res)
                 IN fname_loop(files, target, config, product, res_list, i + 1,
                      [acc EXCEPT
                         !.entries = (res_tag :> TableEntry(target, config, product, res_tag)) @@ @,
                         !.lowest_res = IF takes THEN this_res ELSE @,
                         !.lowest_res_tag = IF takes THEN res_tag ELSE @])
            ELSE fname_loop(files, target, config, product, res_list, i + 1,
                            not_found(acc, res_tag))

\* A variant that takes a non-empty override without looking it up.
select_override(res_lowresmask, entries, lowest_res_tag) ==
    IF res_lowresmask # "" THEN res_lowresmask ELSE lowest_res_tag

\* "if (res_lowresmask != '') and (res_lowresmask in fname_dict)"
select_lowres(res_lowresmask, entries, lowest_res_tag) ==
    IF res_lowresmask # "" /\ res_lowresmask \in DOMAIN entries
    THEN res_lowresmask
    ELSE lowest_res_tag

\* The product directory of a target, as a path for the record of what was
\* touched.
OutDir(target) ==
    [target |-> target, config |-> "", product |-> "", ext |-> "outdir", tag |-> "", sfx |-> ""]

\* What a call returns or raises.
Returned(kind, entries, tag, mask) ==
    [kind |-> kind, entries |-> entries, tag |-> tag, mask |-> mask, err |-> ""]
Raised(err) ==
    [kind |-> "raise", entries |-> <<>>, tag |-> "", mask |-> NoneMask, err |-> err]
NoResult == Returned("none", <<>>, "", NoneMask)

\* A variant that takes the product directory to be missing.
outdir_assumed_missing(dirset, target) == TRUE

\* "if not os.path.isdir(outdir): os.makedirs(outdir)"
outdir_missing(dirset, target) == target \notin dirset

\* _fname_dict as a function of the file system: its result, the directory it
\* makes (mkdir), the records it logs and the file-system operations it does
\* (io: the directories made and the files read, removed and written).
fname_dict(files, dirset, target, config, product, res_lowresmask) ==
    IF target = None
    THEN [res |-> Returned("tuple", <<>>, "", NoneMask), mkdir |-> FALSE,
          log |-> <<[level |-> "error", what |-> "Need a target."]>>, io |-> {}]
    ELSE IF product = None
    THEN [res |-> Returned("tuple", <<>>, "", NoneMask), mkdir |-> FALSE,
          log |-> <<[level |-> "error", what |-> "Need a product."]>>, io |-> {}]
    ELSE IF config = None
    THEN [res |-> Returned("tuple", <<>>, "", NoneMask), mkdir |-> FALSE,
          log |-> <<[level |-> "error", what |-> "Need a config."]>>, io |-> {}]
    ELSE LET mk == outdir_missing(dirset, target)
             io0 == IF mk THEN {[op |-> "makedirs", path |-> OutDir(target)]} ELSE {}
         IN IF ~HasResList(config)
            THEN [res |-> Raised("Exception"), mkdir |-> mk,
                  log |-> <<[level |-> "error", what |-> "No target resolutions found"]>>,
                  io |-> io0]
            ELSE LET acc == fname_loop(files, target, config, product,
                                       get_res_for_config(config), 1,
                                       [entries |-> <<>>, lowest_res |-> NoRes,
                                        lowest_res_tag |-> "", log |-> <<>>])
                 IN [res |-> Returned("dict", acc.entries,
                                      select_lowres(res_lowresmask, acc.entries,
                                                    acc.lowest_res_tag),
                                      NoneMask),
                     mkdir |-> mk, log |-> acc.log, io |-> io0]

(* -------------------- recipe_building_low_resolution_mask -------------- *)
DefaultLowres == "10p72"

\* A variant that checks nothing.
no_check(target, product, config) == ""

\* The input check of the two recipes: the message of the first unset
\* argument, or "".
check_input(target, product, config) ==
    IF target = None THEN "Please input a target."
    ELSE IF product = None THEN "Please input a product."
    ELSE IF config = None THEN "Please input a config."
    ELSE ""

\* fits.getdata / fits.open of a path: the data of the file, when it exists.
can_open(files, path) == isfile(files, path)

\* The recipe as a function of the file system, like fname_dict above.
\* fname_dict[''] raises KeyError: the table has no entry of that name.
low_resolution_mask(files, dirset, target, product, config, res_lowresmask) ==
    LET msg == check_input(target, product, config)
    IN IF msg # ""
       THEN [res |-> Raised("Exception"), mkdir |-> FALSE,
             log |-> <<[level |-> "error", what |-> msg]>>, io |-> {}]
       ELSE LET fd == fname_dict(files, dirset, target, config, product, res_lowresmask)
            IN IF fd.res.kind = "raise" THEN fd
               ELSE LET lowres_cube_tag == fd.res.tag
                    IN IF lowres_cube_tag \notin DOMAIN fd.res.entries
                       THEN [fd EXCEPT !.res = Raised("KeyError")]
                       ELSE LET cube == fd.res.entries[lowres_cube_tag].pbcorr_trimmed_k
                            IN IF ~can_open(files, cube)
                               THEN [fd EXCEPT !.res = Raised("IOError")]
                               ELSE LET lowres_cube_data == files[cube].data
                                        lowres_cube_noise == noise_cube(lowres_cube_data)
                                        lowres_cube_mask ==
                                            simple_mask(lowres_cube_data, lowres_cube_noise)
                                    IN [fd EXCEPT
                                          !.res = Returned("pair", <<>>, lowres_cube_tag,
                                                           lowres_cube_mask),
                                          !.io = @ \cup {[op |-> "read", path |-> cube]}]

(* --------------------------- task_writing_mask ------------------------- *)
\* A variant that leaves the old file in place.
keep_old(files, outfile) == [files |-> files, io |-> {}]

\* "if os.path.isfile(outfile): os.remove(outfile)"
\* with the operation it did, for the record.
remove_old(files, outfile) ==
    IF isfile(files, outfile)
    THEN [files |-> remove(files, outfile), io |-> {[op |-> "remove", path |-> outfile]}]
    ELSE [files |-> files, io |-> {}]

\* SpectralCube.write(outfile, format="fits"): it refuses to overwrite.
write_fits(files, outfile, file) ==
    IF isfile(files, outfile)
    THEN [files |-> files, err |-> "OSError"]
    ELSE [files |-> put(files, outfile, file), err |-> ""]

\* A variant that looks at the mask only.
mask_is_set(mask, wcs, outfile) == mask # NoneMask

\* "if mask is not None and wcs is not None and outfile is not None:"
all_are_set(mask, wcs, outfile) == mask # NoneMask /\ wcs # None /\ outfile # NonePath

\* The mask writer: a no-op unless mask, wcs and outfile are all set.
writing_mask(files, stamp, mask, wcs, comments, outfile) ==
    IF all_are_set(mask, wcs, outfile)
    THEN LET cleared == remove_old(files, outfile)
             w == write_fits(cleared.files, outfile,
                             [type |-> "mask", func |-> "", data |-> astype_int(mask),
                              note |-> comments, stamp |-> stamp])
         IN [files |-> w.files, err |-> w.err,
             io |-> cleared.io
                    \cup (IF w.err = "" THEN {[op |-> "write", path |-> outfile]} ELSE {})]
    ELSE [files |-> files, err |-> "", io |-> {}]

(* ------------------------- task_writting_products ---------------------- *)
\* A variant that ignores the do_ flags.
process_every_kind(flags) == KindList

\* process_list: the enabled kinds, in the order of the do_ flags.
process_list_of(flags) == SelectSeq(KindList, LAMBDA k : k \in flags)

\* "errorfile = process_dict['errorfile'] if do_errormaps else None"
errorfile_of(common, kind, do_errormaps) ==
    IF do_errormaps THEN ProductPath(common, ErrSfx(kind)) ELSE NonePath

\* The loop "delete old files" from position k on.  os.path.isfile(None)
\* raises TypeError.
RECURSIVE delete_old(_, _, _, _, _, _)
delete_old(files, common, process_list, do_errormaps, k, io) ==
    IF k > Len(process_list) THEN [files |-> files, err |-> "", io |-> io]
    ELSE LET outfile == ProductPath(common, process_list[k])
             errorfile == errorfile_of(common, process_list[k], do_errormaps)
             out == remove_old(files, outfile)
         IN IF errorfile = NonePath
            THEN [files |-> out.files, err |-> "TypeError", io |-> io \cup out.io]
            ELSE LET err == remove_old(out.files, errorfile)
                 IN delete_old(err.files, common, process_list, do_errormaps, k + 1,
                               io \cup out.io \cup err.io)

\* A SpectralCube: the data and the mask laid over it.
SpectralCube(data, mask) == [data |-> data, mask |-> mask]

\* The collapse of a masked cube: only the voxels of the mask contribute.
collapse(cube) == [v \in Voxels |-> IF cube.mask[v] THEN cube.data[v] ELSE 0]

\* scProductRoutines.write_<kind>: the value map to outfile and, when an
\* errorfile is named, the error map to errorfile.
processfunction(files, stamp, kind, cube, rms, outfile, errorfile) ==
    LET withmap == put(files, outfile,
                       [type |-> "map", func |-> kind, data |-> collapse(cube),
                        note |-> <<>>, stamp |-> stamp])
    IN IF errorfile = NonePath
       THEN [files |-> withmap, io |-> {[op |-> "write", path |-> outfile]}]
       ELSE [files |-> put(withmap, errorfile,
                           [type |-> "map", func |-> ErrSfx(kind), data |-> collapse(rms),
                            note |-> <<>>, stamp |-> stamp]),
             io |-> {[op |-> "write", path |-> outfile],
                     [op |-> "write", path |-> errorfile]}]

(* ------------------------------- state --------------------------------- *)
VARIABLES
    files,    \* the file system: path -> file, for the paths that exist
    dirs,     \* the targets whose product directory exists
    log,      \* the error and warning records of the logger
    io,       \* the file-system operations of the current call
    status,   \* "idle", "running", "returned" or "raised"
    stack,    \* the calls in progress, innermost last
    result,   \* what the call returned or raised
    calls,    \* the number of calls made so far
    call,     \* the top-level call and its arguments
    files0,   \* the file system when the call was made
    dirs0,    \* the product directories when the call was made
    ra,       \* the frame of recipe_building_all_resolution_masks
    wp,       \* the frame of task_writting_products
    lp        \* the frame of loop_products_making

vars == <<files, dirs, log, io, status, stack, result, calls, call, files0, dirs0, ra, wp, lp>>

NoFrame == [step |-> "none"]
NoCall == [op |-> "none"]

(* ------------------------------ initially ------------------------------ *)
TargetIndex(target) == CHOOSE i \in 1..Len(TargetNames) : TargetNames[i] = target
ResIndex(res) == CHOOSE i \in 1..3 : get_res_for_config("7m+tp")[i] = res
ResOfTag(tag) == CHOOSE r \in ResSet : get_tag_for_res(r) = tag

\* The data of the cube of a target at a resolution, in data set s: bright
\* voxels (6 units) on a dark ground.
CubeData(s, target, res) ==
    [v \in Voxels |-> IF (v * ResIndex(res) + s + TargetIndex(target)) % 3 = 0 THEN 6 ELSE 0]

\* The file system with the cubes of present (target -> resolutions) and an
\* old file at every path of stale.
Disk(present, s, stale) ==
    LET cubes == {CubePath(t, c, p, get_tag_for_res(r)) :
                     t \in Targets, c \in Configs, p \in Products, r \in ResSet}
        there == {q \in cubes : ResOfTag(q.tag) \in present[q.target]}
    IN [q \in there \cup stale |->
          IF q \in there THEN CubeFile(CubeData(s, q.target, ResOfTag(q.tag)))
          ELSE OldFile]

InitWith(presents, stales) ==
    /\ \E present \in presents, s \in 1..NumDataSets, stale \in stales :
          /\ files = Disk(present, s, stale)
          /\ dirs = {q.target : q \in stale}
    /\ log = <<>>
    /\ io = {}
    /\ status = "idle"
    /\ stack = <<>>
    /\ result = NoResult
    /\ calls = 0
    /\ call = NoCall
    /\ files0 = files
    /\ dirs0 = dirs
    /\ ra = NoFrame
    /\ wp = NoFrame
    /\ lp = NoFrame

\* Any subset of the first target's cubes is on disk, all cubes of the other
\* targets are; the first target's product directory is missing, or holds an
\* old file at every output path.
FirstTargetVaries ==
    {f \in [Targets -> SUBSET ResSet] : \A t \in Targets \ {TargetNames[1]} : f[t] = ResSet}

StaleFirst == {q \in OutPaths : q.target = TargetNames[1]}

Init == InitWith(FirstTargetVaries, {{}, StaleFirst})

(* --------------------------- top-level calls --------------------------- *)
\* What every top-level call sets when it starts.
Begin(op) ==
    /\ status = "idle"
    /\ calls' = calls + 1
    /\ call' = op
    /\ files0' = files
    /\ dirs0' = dirs

\* The effect of a call that runs in one step: r is the record that
\* fname_dict and low_resolution_mask compute.
Finish(r, target) ==
    /\ result' = r.res
    /\ status' = IF r.res.kind = "raise" THEN "raised" ELSE "returned"
    /\ dirs' = IF r.mkdir THEN dirs \cup {target} ELSE dirs
    /\ log' = log \o r.log
    /\ io' = r.io

\* The calls are made on the first target, or without a target.
TargetArgs == {TargetNames[1], None}
ProductArgs == Products \cup {None}
ConfigArgs == Configs \cup {None, "unknown"}
OverrideArgs == Tags \cup {"", "bogus"}

\* _fname_dict(target, config, product, res_lowresmask)
FnameDictCall ==
    \E target \in TargetArgs, config \in ConfigArgs, product \in ProductArgs,
       res_lowresmask \in OverrideArgs :
        /\ Begin([op |-> "_fname_dict", target |-> target, config |-> config,
                  product |-> product, res_lowresmask |-> res_lowresmask])
        /\ Finish(fname_dict(files, dirs, target, config, product, res_lowresmask), target)
        /\ UNCHANGED <<files, stack, ra, wp, lp>>

\* recipe_building_low_resolution_mask(target, product, config, res_lowresmask)
LowResCall ==
    \E target \in TargetArgs, config \in ConfigArgs, product \in ProductArgs,
       res_lowresmask \in OverrideArgs :
        /\ Begin([op |-> "recipe_low", target |-> target, config |-> config,
                  product |-> product, res_lowresmask |-> res_lowresmask])
        /\ Finish(low_resolution_mask(files, dirs, target, product, config, res_lowresmask),
                  target)
        /\ UNCHANGED <<files, stack, ra, wp, lp>>

\* The low-resolution recipe called once more with the arguments of the call
\* before, on the file system that call left; first is what that call
\* returned or raised and made the directories it made.
LowResAgain ==
    /\ status \in {"returned", "raised"}
    /\ call.op \in {"recipe_low", "recipe_low_again"}
    /\ calls < MaxCalls
    /\ calls' = calls + 1
    /\ call' = [op |-> "recipe_low_again", target |-> call.target, config |-> call.config,
                product |-> call.product, res_lowresmask |-> call.res_lowresmask,
                first |-> result, made |-> dirs \ dirs0]
    /\ files0' = files
    /\ dirs0' = dirs
    /\ Finish(low_resolution_mask(files, dirs, call.target, call.product, call.config,
                                  call.res_lowresmask),
              call.target)
    /\ UNCHANGED <<files, stack, ra, wp, lp>>

(* ----------------- recipe_building_all_resolution_masks ---------------- *)
\* A variant in which the loop catches the exception and goes on.
Swallow(err) ==
    /\ status' = "running"
    /\ stack' = <<"loop">>
    /\ result' = NoResult

\* An exception: nothing in the module catches one, so it ends every call in
\* progress.
Raise(err) ==
    /\ status' = "raised"
    /\ stack' = <<>>
    /\ result' = Raised(err)

\* A call returns None to its caller, or ends the run when it was the
\* top-level call.
Return ==
    /\ stack' = SubSeq(stack, 1, Len(stack) - 1)
    /\ status' = IF Len(stack) = 1 THEN "returned" ELSE status
    /\ result' = NoResult

Running(name) == status = "running" /\ stack # <<>> /\ stack[Len(stack)] = name

\* np.logical_or
logical_or(a, b) == [v \in Voxels |-> a[v] \/ b[v]]
\* A variant that combines the two masks with AND.
hybrid_mask_and(cube_signal_mask, lowres_cube_mask) ==
    [v \in Voxels |-> cube_signal_mask[v] /\ lowres_cube_mask[v]]
\* "cube_hybrid_mask = np.logical_or(cube_signal_mask, lowres_cube_mask)"
hybrid_mask(cube_signal_mask, lowres_cube_mask) ==
    logical_or(cube_signal_mask, lowres_cube_mask)

\* The name the recipe passes on where it has no low-resolution mask:
\* this_target, this_product and this_config are names of the loop, not of
\* the recipe, so evaluating them raises NameError.
lowres_for_recipe(fs, dirset, target, product, config) ==
    [res |-> Raised("NameError"), mkdir |-> FALSE, log |-> <<>>, io |-> {}]

\* The recipe up to its loop over res_list.
AllResEnter(target, product, config, lowres_cube_mask, lowres_cube_tag) ==
    LET msg == check_input(target, product, config)
    IN IF msg # ""
       THEN /\ Raise("Exception")
            /\ log' = Append(log, [level |-> "error", what |-> msg])
            /\ io' = {}
            /\ UNCHANGED <<dirs, ra>>
       ELSE IF lowres_cube_mask = NoneMask \/ lowres_cube_tag = None
       THEN LET low == lowres_for_recipe(files, dirs, target, product, config)
            IN /\ low.res.kind = "raise"
               /\ Raise(low.res.err)
               /\ io' = low.io
               /\ UNCHANGED <<dirs, log, ra>>
       ELSE LET fd == fname_dict(files, dirs, target, config, product, "")
            IN /\ dirs' = IF fd.mkdir THEN dirs \cup {target} ELSE dirs
               /\ log' = log \o fd.log
               /\ io' = fd.io
               /\ IF fd.res.kind = "raise"
                  THEN Raise(fd.res.err) /\ UNCHANGED ra
                  ELSE /\ status' = "running"
                       /\ stack' = Append(stack, "recipe_all")
                       /\ result' = NoResult
                       /\ ra' = [step |-> "loop", target |-> target, product |-> product,
                                 config |-> config,
                                 lowres_cube_mask |-> lowres_cube_mask,
                                 lowres_cube_tag |-> lowres_cube_tag,
                                 fname_dict |-> fd.res.entries,
                                 res_list |-> get_res_for_config(config), i |-> 1,
                                 cube_data |-> ZeroData, cube_noise |-> ZeroData,
                                 cube_signal_mask |-> NoneMask,
                                 cube_hybrid_mask |-> NoneMask]

TagArgs == Tags \cup {None}

AllResCall ==
    \E target \in TargetArgs, product \in ProductArgs, config \in ConfigArgs,
       lowres_cube_mask \in Masks \cup {NoneMask}, lowres_cube_tag \in TagArgs :
        /\ Begin([op |-> "recipe_all", target |-> target, product |-> product,
                  config |-> config, lowres_cube_mask |-> lowres_cube_mask,
                  lowres_cube_tag |-> lowres_cube_tag])
        /\ AllResEnter(target, product, config, lowres_cube_mask, lowres_cube_tag)
        /\ UNCHANGED <<files, wp, lp>>

\* The tag of the resolution the loop is at.
this_tag(fr) == get_tag_for_res(fr.res_list[fr.i])

\* "for this_res in res_list" is exhausted: the recipe returns.
RecipeReturn ==
    /\ Running("recipe_all")
    /\ ra.step = "loop"
    /\ ra.i > Len(ra.res_list)
    /\ Return
    /\ ra' = [ra EXCEPT !.step = "done"]
    /\ UNCHANGED <<files, dirs, log, io, calls, call, files0, dirs0, wp, lp>>

\* "if res_tag in fname_dict" fails: the resolution is passed over.
RecipeSkip ==
    /\ Running("recipe_all")
    /\ ra.step = "loop"
    /\ ra.i <= Len(ra.res_list)
    /\ this_tag(ra) \notin DOMAIN ra.fname_dict
    /\ ra' = [ra EXCEPT !.i = @ + 1]
    /\ UNCHANGED <<files, dirs, log, io, status, stack, result, calls, call, files0, dirs0, wp, lp>>

\* The cube is opened, its noise and both masks are built.
RecipeOpen ==
    /\ Running("recipe_all")
    /\ ra.step = "loop"
    /\ ra.i <= Len(ra.res_list)
    /\ this_tag(ra) \in DOMAIN ra.fname_dict
    /\ LET cube == ra.fname_dict[this_tag(ra)].pbcorr_trimmed_k
       IN IF ~can_open(files, cube)
          THEN Raise("IOError") /\ UNCHANGED <<ra, io>>
          ELSE LET cube_data == files[cube].data
                   cube_noise == noise_cube(cube_data)
                   cube_signal_mask == simple_mask(cube_data, cube_noise)
               IN /\ ra' = [ra EXCEPT !.step = "hybrid",
                                      !.cube_data = cube_data,
                                      !.cube_noise = cube_noise,
                                      !.cube_signal_mask = cube_signal_mask,
                                      !.cube_hybrid_mask =
                                          hybrid_mask(cube_signal_mask, ra.lowres_cube_mask)]
                  /\ io' = io \cup {[op |-> "read", path |-> cube]}
                  /\ UNCHANGED <<status, stack, result>>
    /\ UNCHANGED <<files, dirs, log, calls, call, files0, dirs0, wp, lp>>

\* The two calls of task_writing_mask of the recipe.
write_hybrid(fs, stamp, fr) ==
    writing_mask(fs, stamp, fr.cube_hybrid_mask, "wcs",
                 <<this_tag(fr), fr.lowres_cube_tag>>,
                 fr.fname_dict[this_tag(fr)].hybridmask)
write_signal(fs, stamp, fr) ==
    writing_mask(fs, stamp, fr.cube_signal_mask, "wcs",
                 <<this_tag(fr)>>,
                 fr.fname_dict[this_tag(fr)].signalmask)

\* A step of the recipe that writes a mask: w is what writing_mask did.
MaskStep(w, next) ==
    /\ files' = w.files
    /\ io' = io \cup w.io
    /\ IF w.err # ""
       THEN Raise(w.err) /\ UNCHANGED ra
       ELSE ra' = [ra EXCEPT !.step = next] /\ UNCHANGED <<status, stack, result>>
    /\ UNCHANGED <<dirs, log, calls, call, files0, dirs0, wp, lp>>

RecipeWriteHybrid ==
    /\ Running("recipe_all")
    /\ ra.step = "hybrid"
    /\ MaskStep(write_hybrid(files, calls, ra), "signal")

RecipeWriteSignal ==
    /\ Running("recipe_all")
    /\ ra.step = "signal"
    /\ MaskStep(write_signal(files, calls, ra), "broad")

\* The frame of a call of task_writting_products.
products_frame(cube, rms, commonoutfitsfile, flags, do_errormaps) ==
    [step |-> "delete", cube |-> cube, rms |-> rms, common |-> commonoutfitsfile,
     flags |-> flags, process_list |-> process_list_of(flags),
     do_errormaps |-> do_errormaps, k |-> 1]

\* The two calls of task_writting_products of the recipe, with every kind and
\* the error maps enabled (the defaults).
broad_call(fr) ==
    products_frame(SpectralCube(fr.cube_data, fr.cube_hybrid_mask),
                   SpectralCube(fr.cube_noise, fr.cube_hybrid_mask),
                   fr.fname_dict[this_tag(fr)].broad, Kinds, TRUE)
strict_call(fr) ==
    products_frame(SpectralCube(fr.cube_data, fr.cube_signal_mask),
                   SpectralCube(fr.cube_noise, fr.cube_signal_mask),
                   fr.fname_dict[this_tag(fr)].strict, Kinds, TRUE)

RecipeProductsBroad ==
    /\ Running("recipe_all")
    /\ ra.step = "broad"
    /\ wp' = broad_call(ra)
    /\ stack' = Append(stack, "products")
    /\ ra' = [ra EXCEPT !.step = "strict"]
    /\ UNCHANGED <<files, dirs, log, io, status, result, calls, call, files0, dirs0, lp>>

RecipeProductsStrict ==
    /\ Running("recipe_all")
    /\ ra.step = "strict"
    /\ wp' = strict_call(ra)
    /\ stack' = Append(stack, "products")
    /\ ra' = [ra EXCEPT !.step = "loop", !.i = @ + 1]
    /\ UNCHANGED <<files, dirs, log, io, status, result, calls, call, files0, dirs0, lp>>

(* ------------------------ task_writting_products ----------------------- *)
\* The loop "delete old files", all of it.
ProductsDelete ==
    /\ Running("products")
    /\ wp.step = "delete"
    /\ LET d == delete_old(files, wp.common, wp.process_list, wp.do_errormaps, 1, {})
       IN /\ files' = d.files
          /\ io' = io \cup d.io
          /\ IF d.err # ""
             THEN Raise(d.err) /\ UNCHANGED wp
             ELSE wp' = [wp EXCEPT !.step = "produce"] /\ UNCHANGED <<status, stack, result>>
    /\ UNCHANGED <<dirs, log, calls, call, files0, dirs0, ra, lp>>

\* One pass of the loop that makes the products: the kind at k is written.
ProductsProduce ==
    /\ Running("products")
    /\ wp.step = "produce"
    /\ wp.k <= Len(wp.process_list)
    /\ LET kind == wp.process_list[wp.k]
           w == processfunction(files, calls, kind, wp.cube, wp.rms,
                                ProductPath(wp.common, kind),
                                errorfile_of(wp.common, kind, wp.do_errormaps))
       IN /\ files' = w.files
          /\ io' = io \cup w.io
    /\ wp' = [wp EXCEPT !.k = @ + 1]
    /\ UNCHANGED <<dirs, log, status, stack, result, calls, call, files0, dirs0, ra, lp>>

\* The routine of the kind at k fails before it writes anything.
ProductsFail ==
    /\ Running("products")
    /\ wp.step = "produce"
    /\ wp.k <= Len(wp.process_list)
    /\ Raise("ProductError")
    /\ wp' = [wp EXCEPT !.step = "failed"]
    /\ UNCHANGED <<files, dirs, log, io, calls, call, files0, dirs0, ra, lp>>

ProductsReturn ==
    /\ Running("products")
    /\ wp.step = "produce"
    /\ wp.k > Len(wp.process_list)
    /\ Return
    /\ wp' = [wp EXCEPT !.step = "done"]
    /\ UNCHANGED <<files, dirs, log, io, calls, call, files0, dirs0, ra, lp>>

(* -------------------------- loop_products_making ----------------------- *)
\* The configs of the key handler, in the looper's order.
ConfigList == <<"7m+tp">>

\* looper(do_targets, do_products, do_configs): the triples, targets
\* outermost and configs innermost.
looper(targets, products, configs) ==
    LET np == Len(products)
        nc == Len(configs)
    IN [i \in 1..(Len(targets) * np * nc) |->
          [target |-> targets[((i - 1) \div (np * nc)) + 1],
           product |-> products[(((i - 1) \div nc) % np) + 1],
           config |-> configs[((i - 1) % nc) + 1]]]

\* make_missing_directories(product=True): the product directory of every
\* target of the key handler.
make_missing_directories(dirset) == dirset \cup Targets

\* A variant in which the loop stays at the triple it is at.
same_triple(i) == i

\* The next pass of "for this_target, this_product, this_config in ...".
next_triple(i) == i + 1

\* The lists of the handler a call of the loop may find.
TargetList == [i \in 1..NumTargets |-> TargetNames[i]]
TargetLists == {<<>>, TargetList}
ProductLists == {<<>>, <<"co21">>}

\* loop_products_making(make_directories) up to its loop.  lows and alls
\* count, per triple, the low-resolution recipes that returned and the
\* all-resolutions recipes that were started; start is the file system when
\* the loop came to the triple it is at.
LoopCall ==
    \E targets \in TargetLists, products \in ProductLists, make_directories \in BOOLEAN :
        /\ Begin([op |-> "loop", targets |-> targets, products |-> products,
                  make_directories |-> make_directories])
        /\ io' = {}
        /\ IF Len(targets) = 0 \/ Len(products) = 0
           THEN /\ log' = Append(log, [level |-> "error",
                                       what |-> IF Len(targets) = 0
                                                THEN "Need a target list."
                                                ELSE "Need a products list."])
                /\ status' = "returned"
                /\ result' = NoResult
                /\ UNCHANGED <<dirs, stack, lp>>
           ELSE /\ dirs' = IF make_directories THEN make_missing_directories(dirs) ELSE dirs
                /\ status' = "running"
                /\ stack' = <<"loop">>
                /\ lp' = LET triples == looper(targets, products, ConfigList)
                         IN [step |-> "low", triples |-> triples, idx |-> 1,
                             lowres_cube_mask |-> NoneMask, lowres_cube_tag |-> "",
                             lows |-> [i \in 1..Len(triples) |-> 0],
                             alls |-> [i \in 1..Len(triples) |-> 0],
                             start |-> files]
                /\ UNCHANGED <<log, result>>
        /\ UNCHANGED <<files, ra, wp>>

\* The triple the loop is at.
this_triple(fr) == fr.triples[fr.idx]

\* The call of recipe_building_low_resolution_mask of the loop, with the
\* default override.
LoopLow ==
    /\ Running("loop")
    /\ lp.step = "low"
    /\ lp.idx <= Len(lp.triples)
    /\ LET t == this_triple(lp)
           r == low_resolution_mask(files, dirs, t.target, t.product, t.config, DefaultLowres)
       IN /\ dirs' = IF r.mkdir THEN dirs \cup {t.target} ELSE dirs
          /\ log' = log \o r.log
          /\ io' = io \cup r.io
          /\ IF r.res.kind = "raise"
             THEN Raise(r.res.err) /\ UNCHANGED lp
             ELSE /\ lp' = [lp EXCEPT !.step = "all",
                                      !.lowres_cube_mask = r.res.mask,
                                      !.lowres_cube_tag = r.res.tag,
                                      !.lows[lp.idx] = @ + 1]
                  /\ UNCHANGED <<status, stack, result>>
    /\ UNCHANGED <<files, calls, call, files0, dirs0, ra, wp>>

\* The call of recipe_building_all_resolution_masks of the loop, with the
\* mask and the tag the low-resolution recipe returned.
LoopAll ==
    /\ Running("loop")
    /\ lp.step = "all"
    /\ LET t == this_triple(lp)
       IN AllResEnter(t.target, t.product, t.config, lp.lowres_cube_mask, lp.lowres_cube_tag)
    /\ lp' = [lp EXCEPT !.step = "next", !.alls[lp.idx] = @ + 1]
    /\ UNCHANGED <<files, calls, call, files0, dirs0, wp>>

\* The recipe returned: the loop goes to the next triple.
LoopNext ==
    /\ Running("loop")
    /\ lp.step = "next"
    /\ lp' = [lp EXCEPT !.step = "low", !.idx = next_triple(@), !.start = files]
    /\ UNCHANGED <<files, dirs, log, io, status, stack, result, calls, call, files0, dirs0,
                   ra, wp>>

\* The looper is exhausted: the loop returns.
LoopReturn ==
    /\ Running("loop")
    /\ lp.step = "low"
    /\ lp.idx > Len(lp.triples)
    /\ Return
    /\ lp' = [lp EXCEPT !.step = "done"]
    /\ UNCHANGED <<files, dirs, log, io, calls, call, files0, dirs0, ra, wp>>

(* ------------------------- the writers, called directly ---------------- *)
FirstCommon == {b \in CommonPaths : b.target = TargetNames[1]}
FirstMasks == {b \in MaskPaths : b.target = TargetNames[1]}
FlagSets == {Kinds \ D : D \in {E \in SUBSET Kinds : Cardinality(E) <= MaxDisabled}} \cup {{}}

FullData == [v \in Voxels |-> 6]

WrittingProductsCall ==
    \E mask \in Masks, common \in FirstCommon, flags \in FlagSets, do_errormaps \in BOOLEAN :
        /\ Begin([op |-> "products", mask |-> mask, common |-> common, flags |-> flags,
                  do_errormaps |-> do_errormaps])
        /\ wp' = products_frame(SpectralCube(FullData, mask),
                                SpectralCube(noise_cube(FullData), mask),
                                common, flags, do_errormaps)
        /\ status' = "running"
        /\ stack' = <<"products">>
        /\ io' = {}
        /\ UNCHANGED <<files, dirs, log, result, ra, lp>>

WritingMaskCall ==
    \E mask \in Masks \cup {NoneMask}, wcs \in {"wcs", None},
       outfile \in FirstMasks \cup {NonePath} :
        /\ Begin([op |-> "mask", mask |-> mask, wcs |-> wcs, outfile |-> outfile])
        /\ LET w == writing_mask(files, calls + 1, mask, wcs, <<"direct">>, outfile)
           IN /\ files' = w.files
              /\ io' = w.io
              /\ status' = IF w.err # "" THEN "raised" ELSE "returned"
              /\ result' = IF w.err # "" THEN Raised(w.err) ELSE NoResult
        /\ UNCHANGED <<dirs, log, stack, ra, wp, lp>>

(* --------------------------- specifications ---------------------------- *)
\* The recipes and the filename table, each called once on a file system.
Next ==
    \/ FnameDictCall
    \/ LowResCall
    \/ AllResCall
    \/ RecipeReturn
    \/ RecipeSkip
    \/ RecipeOpen
    \/ RecipeWriteHybrid
    \/ RecipeWriteSignal
    \/ RecipeProductsBroad
    \/ RecipeProductsStrict
    \/ ProductsDelete
    \/ ProductsProduce
    \/ ProductsFail
    \/ ProductsReturn

Spec == Init /\ [][Next]_vars

\* The two writers, each called once; every cube is on disk, the first
\* target's product directory is missing, holds an old file at every output
\* path, or holds old value maps only.
AllPresent == {[t \in Targets |-> ResSet]}
ValuePaths == {ProductPath(b, k) : b \in FirstCommon, k \in Kinds}
InitWriter == InitWith(AllPresent, {{}, StaleFirst, ValuePaths})

NextWriter ==
    \/ WrittingProductsCall
    \/ WritingMaskCall
    \/ ProductsDelete
    \/ ProductsProduce
    \/ ProductsFail
    \/ ProductsReturn

SpecWriter == InitWriter /\ [][NextWriter]_vars

\* The low-resolution recipe, called and called again.
NextTwice ==
    \/ LowResCall
    \/ LowResAgain

SpecTwice == Init /\ [][NextTwice]_vars

\* The loop, called once.  Each target has all its cubes or no cube, and the
\* first target may also have its finest and its coarsest cube only; no
\* product directory exists, or every output path of every target holds an
\* old file.
LoopPresents ==
    {f \in [Targets -> {ResSet, {536, 2144}, {}}] :
        \A t \in Targets \ {TargetNames[1]} : f[t] # {536, 2144}}

InitLoop == InitWith(LoopPresents, {{}, OutPaths})

NextLoop ==
    \/ LoopCall
    \/ LoopLow
    \/ LoopAll
    \/ LoopNext
    \/ LoopReturn
    \/ RecipeReturn
    \/ RecipeSkip
    \/ RecipeOpen
    \/ RecipeWriteHybrid
    \/ RecipeWriteSignal
    \/ RecipeProductsBroad
    \/ RecipeProductsStrict
    \/ ProductsDelete
    \/ ProductsProduce
    \/ ProductsFail
    \/ ProductsReturn

SpecLoop == InitLoop /\ [][NextLoop]_vars

(* ------------------------------ properties ----------------------------- *)
\* The triple of the call, and what was on disk for it when it was made.
TagOfRes(r) == get_tag_for_res(r)
CubeOfCall(g) == CubePath(call.target, call.config, call.product, g)
PresentRes0 == {r \in ResSet : CubeOfCall(TagOfRes(r)) \in DOMAIN files0}
AbsentRes0 == ResSet \ PresentRes0
OutOfCall(ext, g) == OutPath(call.target, call.config, call.product, ext, g)
ProductsOf(common) ==
    {ProductPath(common, k) : k \in Kinds} \cup {ProductPath(common, ErrSfx(k)) : k \in Kinds}
OutputsOf(g) ==
    {OutOfCall("hybridmask", g), OutOfCall("signalmask", g)}
    \cup ProductsOf(OutOfCall("broad", g)) \cup ProductsOf(OutOfCall("strict", g))

\* A path holds a file written by the current call; a path is as it was when
\* the call was made.
New(p) == p \in DOMAIN files /\ files[p].stamp = calls /\ files[p].type \in {"mask", "map"}
Untouched(p) ==
    /\ (p \in DOMAIN files) = (p \in DOMAIN files0)
    /\ p \in DOMAIN files => files[p] = files0[p]
    /\ \A e \in io : e.path # p
Removed(p) == [op |-> "remove", path |-> p] \in io
Warned == {log[i].what : i \in {j \in 1..Len(log) : log[j].level = "warning"}}

\* The signal mask of the cube that was on disk at path c.
SignalOf(c) == simple_mask(files0[c].data, noise_cube(files0[c].data))

\* C1: in recipe_building_all_resolution_masks the hybrid mask written for a
\* resolution is set at a voxel exactly when the signal mask built from that
\* resolution's cube or the low-resolution mask passed in is set there, and
\* when the recipe returns every resolution whose cube is present has its
\* hybrid mask written.
C1_HybridIsSignalOrLowRes ==
    call.op = "recipe_all" =>
        \A g \in Tags :
            LET p == OutOfCall("hybridmask", g)
                c == CubeOfCall(g)
            IN /\ New(p) =>
                    /\ c \in DOMAIN files0
                    /\ \A v \in Voxels :
                          /\ files[p].data[v] \in {0, 1}
                          /\ (files[p].data[v] = 1) <=>
                                (SignalOf(c)[v] \/ call.lowres_cube_mask[v])
               /\ (status = "returned" /\ c \in DOMAIN files0) => New(p)

\* A hybrid mask was written in which one voxel comes from the
\* low-resolution mask alone and another voxel is in neither mask.
C1_Witness ==
    /\ call.op = "recipe_all"
    /\ status = "returned"
    /\ \E g \in Tags : \E v1, v2 \in Voxels :
          /\ New(OutOfCall("hybridmask", g))
          /\ call.lowres_cube_mask[v1] /\ ~SignalOf(CubeOfCall(g))[v1]
          /\ files[OutOfCall("hybridmask", g)].data[v1] = 1
          /\ files[OutOfCall("hybridmask", g)].data[v2] = 0

\* C2: the reference tag of the table _fname_dict returns is the override
\* when a non-empty override is given and has an entry in the table, and
\* otherwise the tag of the numerically largest resolution among those whose
\* cube is present.
C2_ReferenceTag ==
    (call.op = "_fname_dict" /\ result.kind = "dict") =>
        LET o == call.res_lowresmask
        IN IF o # "" /\ o \in DOMAIN result.entries
           THEN result.tag = o
           ELSE PresentRes0 # {} =>
                    \E r \in PresentRes0 :
                        /\ \A q \in PresentRes0 : q <= r
                        /\ result.tag = TagOfRes(r)

\* The override names the coarsest resolution, its cube is absent, and the
\* reference tag falls back to the coarsest resolution that is present.
C2_Witness ==
    /\ call.op = "_fname_dict"
    /\ result.kind = "dict"
    /\ call.res_lowresmask = "21p44"
    /\ PresentRes0 = {536, 1072}
    /\ result.tag = "10p72"

\* C3: the table of _fname_dict has an entry for exactly the resolutions
\* whose cube is on disk and a warning is logged for each of the others; the
\* all-resolutions recipe never touches an output of a resolution whose cube
\* is absent, and when it returns it has written both masks and every
\* product of each resolution whose cube is present.
C3_OutputsForPresentOnly ==
    /\ (call.op = "_fname_dict" /\ result.kind = "dict") =>
          /\ DOMAIN result.entries = {TagOfRes(r) : r \in PresentRes0}
          /\ Warned = {TagOfRes(r) : r \in AbsentRes0}
    /\ call.op = "recipe_all" =>
          /\ \A r \in AbsentRes0 : \A p \in OutputsOf(TagOfRes(r)) : Untouched(p)
          /\ status = "returned" =>
                /\ \A r \in PresentRes0 : \A p \in OutputsOf(TagOfRes(r)) : New(p)
                /\ Warned = {TagOfRes(r) : r \in AbsentRes0}

\* Of three configured resolutions only the middle one has no cube: the
\* recipe returned, and old outputs of the middle one were on disk.
C3_Witness ==
    /\ call.op = "recipe_all"
    /\ status = "returned"
    /\ PresentRes0 = {536, 2144}
    /\ OutOfCall("hybridmask", "10p72") \in DOMAIN files0
    /\ New(OutOfCall("hybridmask", "5p36"))
    /\ New(ProductPath(OutOfCall("strict", "21p44"), "evquad"))

\* C4: in a run of the all-resolutions recipe an output file that existed
\* before the run and differs from what it was is a file written whole by
\* this run after the old one was removed; the writers never fail on a file
\* that is in the way; and when the run returns every output path of a
\* present resolution that held a file before holds the new one.
C4_Regenerated ==
    call.op = "recipe_all" =>
        /\ result.err # "OSError"
        /\ \A p \in OutPaths \cap DOMAIN files0 :
              (p \in DOMAIN files /\ files[p] # files0[p]) => (New(p) /\ Removed(p))
        /\ status = "returned" =>
              \A r \in PresentRes0 : \A p \in OutputsOf(TagOfRes(r)) :
                  p \in DOMAIN files0 => (New(p) /\ Removed(p))

\* The run returned and replaced an old hybrid mask and an old error map.
C4_Witness ==
    /\ call.op = "recipe_all"
    /\ status = "returned"
    /\ \E g \in Tags :
          /\ OutOfCall("hybridmask", g) \in DOMAIN files0
          /\ New(OutOfCall("hybridmask", g))
          /\ ProductPath(OutOfCall("broad", g), "emom0") \in DOMAIN files0
          /\ New(ProductPath(OutOfCall("broad", g), "emom0"))

\* C5: task_writting_products never creates, deletes or changes the value
\* file or the error file of a kind that is disabled, and when it returns
\* every enabled kind has its value file and its error file written.
C5_DisabledKindsUntouched ==
    call.op = "products" =>
        /\ \A k \in Kinds \ call.flags :
              /\ Untouched(ProductPath(call.common, k))
              /\ Untouched(ProductPath(call.common, ErrSfx(k)))
        /\ status = "returned" =>
              \A k \in call.flags :
                  /\ New(ProductPath(call.common, k))
                  /\ New(ProductPath(call.common, ErrSfx(k)))

\* The call returned with moment 1 disabled while old moment-1 files were on
\* disk, and moment 0 was produced.
C5_Witness ==
    /\ call.op = "products"
    /\ status = "returned"
    /\ call.flags = Kinds \ {"mom1"}
    /\ ProductPath(call.common, "mom1") \in DOMAIN files0
    /\ ProductPath(call.common, "emom1") \in DOMAIN files0
    /\ New(ProductPath(call.common, "mom0"))

\* C6: called with target, product and config set but without a
\* low-resolution mask or tag, the all-resolutions recipe first obtains them
\* from the low-resolution recipe: where that recipe returns a mask for the
\* triple, the call ends in no error of its own, and when it returns the
\* hybrid masks are those of a call given that mask.
C6_ObtainsLowResFirst ==
    LET low == low_resolution_mask(files0, dirs0, call.target, call.product, call.config,
                                   DefaultLowres).res
    IN (/\ call.op = "recipe_all"
        /\ call.target # None /\ call.product # None /\ call.config # None
        /\ (call.lowres_cube_mask = NoneMask \/ call.lowres_cube_tag = None)
        /\ low.kind = "pair") =>
            /\ status = "raised" => result.err = "ProductError"
            /\ status = "returned" =>
                  \A r \in PresentRes0 :
                      LET p == OutOfCall("hybridmask", TagOfRes(r))
                      IN /\ New(p)
                         /\ \A v \in Voxels :
                               (files[p].data[v] = 1) <=>
                                  (SignalOf(CubeOfCall(TagOfRes(r)))[v] \/ low.mask[v])

\* C7: called with the error maps disabled, task_writting_products ends in
\* no error of its own, touches no error-map file, and when it returns every
\* enabled kind has its new value file.
C7_NoErrorMapsCompletes ==
    (call.op = "products" /\ ~call.do_errormaps) =>
        /\ status = "raised" => result.err = "ProductError"
        /\ \A k \in Kinds : Untouched(ProductPath(call.common, ErrSfx(k)))
        /\ status = "returned" => \A k \in call.flags : New(ProductPath(call.common, k))

\* C8: when the routine of one enabled kind fails in task_writting_products,
\* every other enabled kind has its new value file on disk after the call.
C8_FailureIsIsolated ==
    (call.op = "products" /\ status = "raised" /\ result.err = "ProductError") =>
        \A k \in call.flags \ {wp.process_list[wp.k]} : New(ProductPath(call.common, k))

\* C9: with target, product or config unset, the two recipes raise and
\* _fname_dict logs an error and returns the empty tuple instead of a table,
\* all before any file-system action: no directory is made, no file is read,
\* removed or written.
C9_UnsetArgumentFailsFirst ==
    (/\ call.op \in {"_fname_dict", "recipe_low", "recipe_all"}
     /\ (call.target = None \/ call.product = None \/ call.config = None)) =>
        /\ io = {}
        /\ files = files0
        /\ dirs = dirs0
        /\ Len(log) = 1 /\ log[1].level = "error"
        /\ IF call.op = "_fname_dict"
           THEN status = "returned" /\ result.kind = "tuple" /\ result.entries = <<>>
           ELSE status = "raised" /\ result.kind = "raise" /\ result.err = "Exception"

\* The all-resolutions recipe was called without a config while the product
\* directory was missing and cubes were on disk: it raised and made nothing.
C9_Witness ==
    /\ call.op = "recipe_all"
    /\ call.config = None /\ call.target # None /\ call.product # None
    /\ call.lowres_cube_mask # NoneMask
    /\ status = "raised"
    /\ dirs = {}
    /\ \E q \in DOMAIN files : q.ext = "pbcorr_trimmed_k" /\ q.target = call.target

\* C10: when no configured resolution of the triple has its cube on disk,
\* _fname_dict returns a table without entries and with the empty reference
\* tag, and the low-resolution recipe ends in an error, returns no mask and
\* writes or removes no file.
C10_NoCubeAtAll ==
    (/\ call.op \in {"_fname_dict", "recipe_low"}
     /\ call.target # None /\ call.product # None /\ call.config \in Configs
     /\ PresentRes0 = {}) =>
        /\ call.op = "_fname_dict" =>
              /\ status = "returned"
              /\ result.kind = "dict"
              /\ result.entries = <<>>
              /\ result.tag = ""
        /\ call.op = "recipe_low" =>
              /\ status = "raised"
              /\ result.kind = "raise"
              /\ result.mask = NoneMask
              /\ files = files0
              /\ \A e \in io : e.op \notin {"read", "remove", "write"}

\* The low-resolution recipe was called for a triple that has old outputs
\* but no cube on disk, with the default override: it ended in KeyError.
C10_Witness ==
    /\ call.op = "recipe_low"
    /\ call.target # None /\ call.product # None /\ call.config \in Configs
    /\ call.res_lowresmask = DefaultLowres
    /\ PresentRes0 = {}
    /\ OutOfCall("signalmask", "10p72") \in DOMAIN files0
    /\ status = "raised"
    /\ result.err = "KeyError"

\* C13: task_writing_mask called with the mask, the wcs or the output path
\* unset does nothing: it returns without an error, writes no file, and a
\* file that exists at the output path is neither removed nor changed.
C13_UnsetIsNoOp ==
    (/\ call.op = "mask"
     /\ (call.mask = NoneMask \/ call.wcs = None \/ call.outfile = NonePath)) =>
        /\ status = "returned"
        /\ result = NoResult
        /\ files = files0
        /\ io = {}

\* The writer was called with a mask and an output path at which an old file
\* lies, but without a wcs: it returned and the old file is still there.
C13_Witness ==
    /\ call.op = "mask"
    /\ call.mask # NoneMask /\ call.wcs = None /\ call.outfile # NonePath
    /\ call.outfile \in DOMAIN files0
    /\ status = "returned"
    /\ files[call.outfile] = OldFile

\* C14: in every table _fname_dict returns that has an entry for at least
\* one resolution, the reference tag is a key of the table and its entry
\* names an input cube that is on disk, whatever the override: empty, the
\* tag of a present cube, the tag of a missing cube, or no tag at all.
C14_ReferenceTagIsKey ==
    (/\ call.op = "_fname_dict"
     /\ result.kind = "dict"
     /\ result.entries # <<>>) =>
        /\ result.tag \in DOMAIN result.entries
        /\ result.entries[result.tag].pbcorr_trimmed_k = CubeOfCall(result.tag)
        /\ CubeOfCall(result.tag) \in DOMAIN files0

\* The override names the finest resolution, whose cube is missing, while
\* the cube of another resolution is on disk: the table has an entry and the
\* reference tag is not the override.
C14_Witness ==
    /\ call.op = "_fname_dict"
    /\ result.kind = "dict"
    /\ call.res_lowresmask = "5p36"
    /\ 536 \in AbsentRes0
    /\ result.entries # <<>>
    /\ result.tag # "5p36"
    /\ result.tag \in DOMAIN result.entries

\* C16: task_writting_products removes the old value file and the old error
\* file of every enabled kind before it computes the first kind: when the
\* first computation is about to start every such file that existed has been
\* removed, and from then on, also after the routine of a kind has failed,
\* each output path of an enabled kind is absent or holds the file this call
\* wrote.
C16_NoOldOutputOnceComputing ==
    (call.op = "products" /\ wp.step \in {"produce", "failed", "done"}) =>
        \A k \in call.flags :
            \A p \in {ProductPath(call.common, k), ProductPath(call.common, ErrSfx(k))} :
                /\ p \notin DOMAIN files \/ New(p)
                /\ p \in DOMAIN files0 => Removed(p)
                /\ (wp.step = "produce" /\ wp.k = 1) => p \notin DOMAIN files

\* Old value and error files lay at every output path; the routine of the
\* second kind failed after the first kind was written: the first kind's
\* files are new and the last kind's paths are empty.
C16_Witness ==
    /\ call.op = "products"
    /\ call.flags = Kinds
    /\ status = "raised"
    /\ wp.step = "failed"
    /\ wp.k = 2
    /\ \A p \in ProductsOf(call.common) : p \in DOMAIN files0
    /\ New(ProductPath(call.common, "mom0"))
    /\ New(ProductPath(call.common, "emom0"))
    /\ ProductPath(call.common, "vquad") \notin DOMAIN files
    /\ ProductPath(call.common, "evquad") \notin DOMAIN files

TripleCube(t, g) == CubePath(t.target, t.config, t.product, g)
TriplePresent(t) == {r \in ResSet : TripleCube(t, TagOfRes(r)) \in DOMAIN files0}
TripleHybrid(t, g) == OutPath(t.target, t.config, t.product, "hybridmask", g)
TripleOutputs(t, g) ==
    {TripleHybrid(t, g), OutPath(t.target, t.config, t.product, "signalmask", g)}
    \cup ProductsOf(OutPath(t.target, t.config, t.product, "broad", g))
    \cup ProductsOf(OutPath(t.target, t.config, t.product, "strict", g))
LowOf(t) ==
    low_resolution_mask(files0, dirs0, t.target, t.product, t.config, DefaultLowres).res
SameAsIn(fs, p) ==
    /\ (p \in DOMAIN files) = (p \in DOMAIN fs)
    /\ p \in DOMAIN files => files[p] = fs[p]
TripleDone(t) == \A r \in TriplePresent(t) : \A p \in TripleOutputs(t, TagOfRes(r)) : New(p)
InLoop == call.op = "loop" /\ lp.step # "none"
RecipeAllRuns == \E n \in 1..Len(stack) : stack[n] = "recipe_all"

\* C11: in loop_products_making the low-resolution recipe of a triple
\* returns exactly once before the all-resolutions recipe of that triple
\* starts; the mask and the tag it returned are the ones that recipe holds
\* and combines into the hybrid mask of every resolution of the triple; and
\* the triples are worked one after the other: while the loop is at a
\* triple, every earlier triple has all its outputs and no later triple has
\* been touched.
C11_OneTripleAtATime ==
    InLoop =>
        \A j \in 1..Len(lp.triples) :
            LET t == lp.triples[j]
            IN /\ lp.alls[j] <= lp.lows[j]
               /\ lp.lows[j] <= 1
               /\ j > lp.idx =>
                     /\ lp.lows[j] = 0
                     /\ \A g \in Tags : \A p \in TripleOutputs(t, g) : SameAsIn(files0, p)
               /\ j < lp.idx =>
                     /\ lp.lows[j] = 1
                     /\ lp.alls[j] = 1
                     /\ TripleDone(t)
               /\ (j = lp.idx /\ RecipeAllRuns) =>
                     /\ lp.lows[j] = 1
                     /\ lp.alls[j] = 1
                     /\ ra.target = t.target /\ ra.product = t.product
                     /\ ra.config = t.config
                     /\ ra.lowres_cube_mask = LowOf(t).mask
                     /\ ra.lowres_cube_tag = LowOf(t).tag
               /\ \A g \in Tags :
                     New(TripleHybrid(t, g)) =>
                        \A v \in Voxels :
                            (files[TripleHybrid(t, g)].data[v] = 1) <=>
                               (SignalOf(TripleCube(t, g))[v] \/ LowOf(t).mask[v])

\* The loop is in the all-resolutions recipe of its second triple, past the
\* first resolution; the two triples have different low-resolution masks,
\* and the first triple has all its outputs.
C11_Witness ==
    /\ InLoop
    /\ lp.idx = 2
    /\ RecipeAllRuns
    /\ ra.i > 1
    /\ LowOf(lp.triples[1]).mask # LowOf(lp.triples[2]).mask
    /\ TriplePresent(lp.triples[1]) = ResSet
    /\ TripleDone(lp.triples[1])
    /\ New(TripleHybrid(lp.triples[2], "5p36"))

\* C15: loop_products_making catches nothing: when a recipe raises at a
\* triple the loop call itself ends in that error, no later triple is worked
\* on (neither recipe runs for it and none of its outputs is touched), and
\* the outputs of the earlier triples stay as they were when the failing
\* triple was begun; the loop is past a triple only when both recipes
\* returned for it.
C15_ErrorEndsTheLoop ==
    InLoop =>
        /\ status = "raised" =>
              /\ stack = <<>>
              /\ result.kind = "raise"
              /\ lp.idx <= Len(lp.triples)
              /\ \A j \in 1..Len(lp.triples) :
                    /\ j < lp.idx =>
                          \A g \in Tags : \A p \in TripleOutputs(lp.triples[j], g) :
                              SameAsIn(lp.start, p)
                    /\ j > lp.idx =>
                          /\ lp.lows[j] = 0 /\ lp.alls[j] = 0
                          /\ \A g \in Tags : \A p \in TripleOutputs(lp.triples[j], g) :
                                SameAsIn(files0, p)
        /\ \A j \in 1..Len(lp.triples) :
              j < lp.idx =>
                  /\ LowOf(lp.triples[j]).kind = "pair"
                  /\ TripleDone(lp.triples[j])

\* A product routine failed in the second of three triples: the first
\* triple's outputs are on disk, the second has some, the third has its cubes
\* and its old outputs as they were.
C15_Witness ==
    /\ InLoop
    /\ Len(lp.triples) = 3
    /\ lp.idx = 2
    /\ status = "raised"
    /\ result.err = "ProductError"
    /\ TriplePresent(lp.triples[1]) # {}
    /\ TripleDone(lp.triples[1])
    /\ New(TripleHybrid(lp.triples[2], "5p36"))
    /\ TriplePresent(lp.triples[3]) # {}
    /\ TripleHybrid(lp.triples[3], "5p36") \in DOMAIN files0
    /\ files[TripleHybrid(lp.triples[3], "5p36")] = OldFile

====
